---- MODULE Spec2Model ----
(***************************************************************************)
(* A model of the three source fixers under scripts/fixes:                 *)
(*   family A  fix-assertions.py     chained type-assertion cleanup        *)
(*   family B  fix-final-imports.py  import reordering                     *)
(*   family C  fix-ts18046.py        unknown-type narrowing (diagnostics)  *)
(*                                                                         *)
(* Text is modelled at the granularity the regular expressions of the      *)
(* scripts can tell apart.                                                 *)
(*                                                                         *)
(* Family A: a file is a sequence of query-chain lines.  The line          *)
(*   [m |-> "order", has |-> TRUE, t |-> "a", arr |-> TRUE] is the text    *)
(*        .order(x) as { data: Row<'a'>[] | null; error: any }             *)
(*   and a line with has = FALSE is the call alone.  "single" is written   *)
(*   .single() with no argument, as pattern1 requires.                     *)
(*                                                                         *)
(* Family B: a file is a sequence of lines, each one of                    *)
(*   "open"       import {                                                 *)
(*   "rowimport"  import type { Row } from '@/lib/supabase/helpers'        *)
(*   "blank"      an empty line                                            *)
(*   "other"      any other text                                           *)
(*                                                                         *)
(* Family C: a file is a sequence of lines, a line a sequence of tokens    *)
(*   separated by blanks; the text of each token is given with family C.   *)
(***************************************************************************)
EXTENDS Integers, Sequences, FiniteSets, TLC

VARIABLES
    family,       \* "A", "B" or "C": which script is running
    pc,           \* "fix": fix_file is called directly; otherwise main's position
    content,      \* the stored content of the file at hand
    original,     \* its stored content before the last fix_file call
    errors,       \* family C: the diagnostics of the file at hand (file_errors)
    pass,         \* number of fix_file calls made on the file at hand
    ret,          \* what the last fix_file call returned: [changed, count]
    wrote,        \* whether the last fix_file call opened the file for writing
    exists,       \* whether the file at hand exists
    fault,        \* the I/O fault the file at hand suffers, "none" if none
    errline,      \* whether a line for the file at hand went to stderr
    mode,         \* main: "argv" (paths given), "scan" (rglob) or "diag" (family C)
    nfiles,       \* main: files taken from the batch so far
    total_fixed,  \* main (A): total_fixed
    total_files   \* main: total_files (A), fixed_count (B, C)

vars == <<family, pc, content, original, errors, pass, ret, wrote,
          exists, fault, errline, mode, nfiles, total_fixed, total_files>>

(***************************************************************************)
(* Bounds of the model.                                                    *)
(***************************************************************************)
MaxLinesA == 3      \* lines of a family A file
MaxLinesB == 4      \* lines of a family B file
MaxLinesC == 2      \* lines of a family C file
MaxTokens == 2      \* tokens of a family C file, all lines together
MaxErrors == 2      \* diagnostics of a family C file
MaxPasses == 2      \* fix_file calls on one file (idempotence needs two)
MaxFiles == 2       \* files of a batch run of main
MaxBatchLines == 2  \* lines of a family A or B file of a batch run
MaxBatchLinesC == 1 \* lines of a family C file of a batch run
MaxBatchTokens == 1 \* tokens of a family C file of a batch run

\* the sequences over S of length at most n
SeqsUpTo(S, n) == UNION {[1..k -> S] : k \in 0..n}

(***************************************************************************)
(* Family A: fix-assertions.py                                             *)
(***************************************************************************)

\* table names appearing in Row<'...'>
Tables == {"a", "b"}

\* method names appearing in the files: the terminal single, an allow-listed
\* method, a lower-case method outside the allow-list, and a camel-case method,
\* which [a-z_]+ does not match
MethodsIn == {"single", "order", "eq", "maybeSingle"}

\* the names among MethodsIn that the class [a-z_]+ spells in full
LowerCase == {"single", "order", "eq"}

\* the list `methods` of fix_file
methods == <<"or", "order", "limit", "range", "gte", "lte", "gt", "lt",
             "not", "in", "contains", "filter">>

\* the tuple given to startswith in check_and_replace
AllowTuple == {"or", "order", "limit", "range", "gte", "lte", "gt", "lt",
               "not", "in", "contains", "filter"}

LinesA == {l \in [m : MethodsIn, has : BOOLEAN, t : Tables \cup {""}, arr : BOOLEAN] :
              /\ l.has => l.t \in Tables
              /\ ~l.has => (l.t = "" /\ ~l.arr)}

ContentsA == SeqsUpTo(LinesA, MaxLinesA)

\* the line without its assertion: what the replacements keep of group 1's line
Strip(l) == [m |-> l.m, has |-> FALSE, t |-> "", arr |-> FALSE]

\* number of assertion blocks in a text
RECURSIVE Blocks(_)
Blocks(c) == IF c = <<>> THEN 0
             ELSE (IF Head(c).has THEN 1 ELSE 0) + Blocks(Tail(c))

\* pattern1 matches from the closing parenthesis of line i: an assertion for
\* table \2, array or not, then .single() carrying the non-array assertion
\* for the same table \2
Match1(c, i) ==
    /\ i < Len(c)
    /\ c[i].has
    /\ c[i + 1].m = "single"
    /\ c[i + 1].has
    /\ ~c[i + 1].arr
    /\ c[i + 1].t = c[i].t

\* re.subn(pattern1, replacement1, content): leftmost matches that do not
\* overlap; a match takes line i and the whole of line i+1, so the scan goes
\* on at line i+2
RECURSIVE Sub1(_, _)
Sub1(c, i) ==
    IF i >= Len(c) THEN [c |-> c, n |-> 0]
    ELSE IF Match1(c, i)
         THEN LET r == Sub1([c EXCEPT ![i] = Strip(@)], i + 2)
              IN  [c |-> r.c, n |-> r.n + 1]
         ELSE Sub1(c, i + 1)

\* the pattern of the loop for one method: an assertion on line i and
\* .method( opening line i+1
Match2(c, i, method) ==
    /\ i < Len(c)
    /\ c[i].has
    /\ c[i + 1].m = method

\* re.subn(pattern, replacement, content) for one method: a match ends at the
\* opening parenthesis of line i+1, so line i+1 can start the next match
RECURSIVE Sub2(_, _, _)
Sub2(c, i, method) ==
    IF i >= Len(c) THEN [c |-> c, n |-> 0]
    ELSE IF Match2(c, i, method)
         THEN LET r == Sub2([c EXCEPT ![i] = Strip(@)], i + 1, method)
              IN  [c |-> r.c, n |-> r.n + 1]
         ELSE Sub2(c, i + 1, method)

\* for method in methods: ... fixes += count
RECURSIVE Loop2(_, _)
Loop2(c, k) ==
    IF k > Len(methods) THEN [c |-> c, n |-> 0]
    ELSE LET s == Sub2(c, 1, methods[k])
             r == Loop2(s.c, k + 1)
         IN  [c |-> r.c, n |-> s.n + r.n]

\* pattern3: an assertion on line i and a lower-case method opening line i+1
Match3(c, i) ==
    /\ i < Len(c)
    /\ c[i].has
    /\ c[i + 1].m \in LowerCase

\* check_and_replace without its last line "return match.group(0)": every
\* match of pattern3 loses its assertion
CheckAndReplaceAny(c, i) == Strip(c[i])

\* check_and_replace(match): the text the match is replaced by
CheckAndReplace(c, i) ==
    IF c[i + 1].m = "single" /\ c[i].arr THEN Strip(c[i])
    ELSE IF c[i + 1].m \in AllowTuple THEN Strip(c[i])
    ELSE c[i]

\* re.subn(pattern3, check_and_replace, content): n counts every match
RECURSIVE Sub3(_, _)
Sub3(c, i) ==
    IF i >= Len(c) THEN [c |-> c, n |-> 0]
    ELSE IF Match3(c, i)
         THEN LET r == Sub3([c EXCEPT ![i] = CheckAndReplace(c, i)], i + 1)
              IN  [c |-> r.c, n |-> r.n + 1]
         ELSE Sub3(c, i + 1)

\* the three substitutions of fix_file in order: [c: the new text, n: fixes]
RewriteA(c) ==
    LET s1 == Sub1(c, 1)
        s2 == Loop2(s1.c, 1)
        s3 == Sub3(s2.c, 1)
    IN  [c |-> s3.c, n |-> s1.n + s2.n + s3.n]

(***************************************************************************)
(* Family B: fix-final-imports.py                                          *)
(***************************************************************************)
LinesB == {"open", "rowimport", "blank", "other"}

ContentsB == SeqsUpTo(LinesB, MaxLinesB)

\* the line that ends a match of pattern1 begun at line i ("import {", white
\* space, a newline, then the Row import), 0 if none: \s*\n runs over blank lines
RECURSIVE RowAfter(_, _)
RowAfter(c, j) ==
    IF j > Len(c) THEN 0
    ELSE IF c[j] = "rowimport" THEN j
    ELSE IF c[j] = "blank" THEN RowAfter(c, j + 1)
    ELSE 0

\* re.sub(pattern1, replacement1, content): the Row import first, import { after
RECURSIVE RewriteBFrom(_, _)
RewriteBFrom(c, i) ==
    IF i > Len(c) THEN <<>>
    ELSE IF c[i] = "open" /\ RowAfter(c, i + 1) > 0
         THEN <<"rowimport", "open">> \o RewriteBFrom(c, RowAfter(c, i + 1) + 1)
         ELSE <<c[i]>> \o RewriteBFrom(c, i + 1)

RewriteB(c) == RewriteBFrom(c, 1)

(***************************************************************************)
(* Family C: fix-ts18046.py                                                *)
(*                                                                         *)
(* A line is [hof, toks]: hof says that the line holds a call .map( ,       *)
(* .filter( or .forEach( ; toks are its other tokens.  A token [k, v] is    *)
(* about the identifier v; with v = e its text is                          *)
(*   "msg"        e.message           (a word boundary before e)           *)
(*   "prop"       e.id                (a word boundary before e)           *)
(*   "gmsg"       response.message    (e ends a longer word)               *)
(*   "gprop"      the.id              (e ends a longer word)               *)
(*   "errMsg"     (e as Error).message                                     *)
(*   "errProp"    (e as Error).id                                          *)
(*   "gerrMsg"    respons(e as Error).message                              *)
(*   "anyMsg"     (e as any).message                                       *)
(*   "anyProp"    (e as any).id                                            *)
(*   "arrowP"     (e =>               (e right after an open parenthesis)  *)
(*   "arrowB"     e =>                (a blank or nothing before e)        *)
(*   "arrowParen" (e) =>                                                   *)
(*   "annotOk"    (e: any) =>                                              *)
(*   "annotBad"   (e: any =>                                               *)
(* and with v = x the same with x for e and box for response and the.      *)
(* No token about one identifier holds a substring the script looks for    *)
(* when it handles the other.                                              *)
(***************************************************************************)

\* the identifiers diagnostics name: one error-binding name, one other name
Vars == {"e", "x"}

\* var_name in ['error', 'err', 'e']
ErrorNames == {"error", "err", "e"}

\* kinds whose text holds f'{var_name}.message'
MsgKinds == {"msg", "gmsg"}

\* kinds whose text holds f'{var_name}.'
DotKinds == {"msg", "gmsg", "prop", "gprop"}

\* kinds whose text holds f'({var_name} as Error)'
ErrCastKinds == {"errMsg", "errProp", "gerrMsg"}

\* kinds whose text holds f'({var_name} as any)'
AnyCastKinds == {"anyMsg", "anyProp"}

\* kinds whose text holds f'{var_name}: any'
AnnotKinds == {"annotOk", "annotBad"}

\* every kind of token
Kinds == {"msg", "prop", "gmsg", "gprop", "errMsg", "errProp", "gerrMsg",
          "anyMsg", "anyProp", "arrowP", "arrowB", "arrowParen", "annotOk",
          "annotBad"}

\* the kinds files start with
KindsIn == {"msg", "prop", "gmsg", "gprop", "errProp", "anyProp",
            "arrowP", "arrowB", "arrowParen"}

TokensIn == [k : KindsIn, v : Vars]

RECURSIVE TokenCount(_)
TokenCount(c) == IF c = <<>> THEN 0 ELSE Len(Head(c).toks) + TokenCount(Tail(c))

\* the family C files of at most l lines holding at most n tokens
FilesC(l, n) == {c \in SeqsUpTo([hof : BOOLEAN, toks : SeqsUpTo(TokensIn, n)], l) :
                    TokenCount(c) <= n}

ContentsC == FilesC(MaxLinesC, MaxTokens)

\* a diagnostic as read_errors parses it: \d+ admits line 0
Diagnostics == [line : 0..(MaxLinesC + 1), var : Vars]

ErrorLists == SeqsUpTo(Diagnostics, MaxErrors)

\* substring test: some token of the kinds, about v, is on the line
Has(line, kinds, v) == \E i \in 1..Len(line.toks) :
                          line.toks[i].k \in kinds /\ line.toks[i].v = v

\* the line with every token about v rewritten by the map f of kinds
Rewritten(line, v, f) ==
    [line EXCEPT !.toks = [i \in 1..Len(line.toks) |->
        IF line.toks[i].v = v THEN [k |-> f[line.toks[i].k], v |-> v]
        ELSE line.toks[i]]]

\* line.replace(f'{var_name}.message', f'({var_name} as Error).message'):
\* str.replace looks at no word boundary
ReplaceMessage(k) == IF k = "msg" THEN "errMsg"
                     ELSE IF k = "gmsg" THEN "gerrMsg" ELSE k

\* re.sub(rf'\b{var_name}\.', f'({var_name} as Error).', line)
SubErrorCast(k) == IF k = "msg" THEN "errMsg"
                   ELSE IF k = "prop" THEN "errProp" ELSE k

\* re.sub(rf'\({var_name}\s*=>', f'({var_name}: any =>', line)
SubAnnotParen(k) == IF k = "arrowP" THEN "annotBad" ELSE k

\* re.sub(rf'\b{var_name}\s*=>', f'({var_name}: any) =>', line)
SubAnnotBare(k) == IF k \in {"arrowP", "arrowB"} THEN "annotOk" ELSE k

\* the two substitutions of Pattern 2, one after the other
SubAnnot(k) == SubAnnotBare(SubAnnotParen(k))

\* re.sub(rf'\b{var_name}\.', f'({var_name} as any).', line)
SubAnyCast(k) == IF k = "msg" THEN "anyMsg"
                 ELSE IF k = "prop" THEN "anyProp" ELSE k

\* the inner if of Pattern 1
Inner1a(line, v) == Has(line, MsgKinds, v) /\ ~Has(line, ErrCastKinds, v)

\* the inner elif of Pattern 1
Inner1b(line, v) == /\ Has(line, DotKinds, v)
                    /\ ~Has(line, ErrCastKinds, v)
                    /\ ~Has(line, AnyCastKinds, v)

\* the body of Pattern 1, when one of its inner conditions holds
Branch1(line, v) ==
    IF Inner1a(line, v) THEN Rewritten(line, v, [k \in Kinds |-> ReplaceMessage(k)])
    ELSE Rewritten(line, v, [k \in Kinds |-> SubErrorCast(k)])

\* the body of Pattern 2, under its guard
Branch2(line, v) == Rewritten(line, v, [k \in Kinds |-> SubAnnot(k)])

\* the body of Pattern 3
Branch3(line, v) == Rewritten(line, v, [k \in Kinds |-> SubAnyCast(k)])

\* the condition of Pattern 3
Cond3(line, v) == Has(line, DotKinds, v) /\ ~Has(line, AnyCastKinds, v)

\* the if / elif / elif chain of the loop body: [line, modified]
FixLine(line, v) ==
    IF v \in ErrorNames
    THEN IF Inner1a(line, v) \/ Inner1b(line, v)
         THEN [line |-> Branch1(line, v), modified |-> TRUE]
         ELSE [line |-> line, modified |-> FALSE]
    ELSE IF line.hof
    THEN IF ~Has(line, AnnotKinds, v)
         THEN [line |-> Branch2(line, v), modified |-> TRUE]
         ELSE [line |-> line, modified |-> FALSE]
    ELSE IF Cond3(line, v)
    THEN [line |-> Branch3(line, v), modified |-> TRUE]
    ELSE [line |-> line, modified |-> FALSE]

\* lines[line_idx] for line_idx = line - 1 < len(lines): index -1 is the last
\* line; 0 here stands for the IndexError an empty list raises
PyIndex(lines, line) == IF line >= 1 THEN line ELSE Len(lines)

\* the for loop of fix_file over file_errors from error k on:
\* [lines, modified, raised]
RECURSIVE LoopC(_, _, _)
LoopC(lines, errs, k) ==
    IF k > Len(errs) THEN [lines |-> lines, modified |-> FALSE, raised |-> FALSE]
    ELSE IF errs[k].line - 1 >= Len(lines) THEN LoopC(lines, errs, k + 1)
    ELSE IF PyIndex(lines, errs[k].line) = 0
         THEN [lines |-> lines, modified |-> FALSE, raised |-> TRUE]
    ELSE LET i == PyIndex(lines, errs[k].line)
             f == FixLine(lines[i], errs[k].var)
             r == LoopC([lines EXCEPT ![i] = f.line], errs, k + 1)
         IN  [lines |-> r.lines, modified |-> f.modified \/ r.modified,
              raised |-> r.raised]

(***************************************************************************)
(* fix_file, with the faults of the storage it reads and writes.           *)
(*   "none"   no fault                                                     *)
(*   "read"   open(..., 'r') or the read raises (also: the file is missing)*)
(*   "openw"  open(..., 'w') raises: the file is left as it was            *)
(*   "write"  open(..., 'w') has truncated the file and the write raises:  *)
(*            some proper prefix of the new text is left in the file       *)
(* An outcome is [content, changed, count, wrote, raised]: the stored      *)
(* content after the call, the value returned, whether the file was opened *)
(* for writing, and whether the except clause ran (it prints to stderr).   *)
(***************************************************************************)
Faults == {"none", "read", "openw", "write"}

Outcome(c, changed, count, w, raised) ==
    [content |-> c, changed |-> changed, count |-> count, wrote |-> w,
     raised |-> raised]

\* the except clause: the message is printed, (False, 0) / False is returned
Raised(c, w) == Outcome(c, FALSE, 0, w, TRUE)

\* with open(filepath, 'w') as f: f.write(new), on a file holding old
WriteBack(old, new, flt, count) ==
    IF flt = "openw" THEN {Raised(old, FALSE)}
    ELSE IF flt = "write"
         THEN {Raised(SubSeq(new, 1, n), TRUE) : n \in 0..(Len(new) - 1)}
    ELSE {Outcome(new, TRUE, count, TRUE, FALSE)}

\* fix_file of fix-assertions.py
FixFileA(c, flt) ==
    IF flt = "read" THEN {Raised(c, FALSE)}
    ELSE LET r == RewriteA(c)
         IN  IF r.c # c THEN WriteBack(c, r.c, flt, r.n)
             ELSE {Outcome(c, FALSE, 0, FALSE, FALSE)}

\* fix_file of fix-final-imports.py
FixFileB(c, flt) ==
    IF flt = "read" THEN {Raised(c, FALSE)}
    ELSE LET r == RewriteB(c)
         IN  IF r # c THEN WriteBack(c, r, flt, 0)
             ELSE {Outcome(c, FALSE, 0, FALSE, FALSE)}

\* fix_file of fix-ts18046.py
FixFileC(c, errs, flt) ==
    IF flt = "read" THEN {Raised(c, FALSE)}
    ELSE LET r == LoopC(c, errs, 1)
         IN  IF r.raised THEN {Raised(c, FALSE)}
             ELSE IF r.modified THEN WriteBack(c, r.lines, flt, 0)
             ELSE {Outcome(c, FALSE, 0, FALSE, FALSE)}

\* the state after a call of fix_file on the file at hand with outcome o
Returned(o) ==
    /\ original' = content
    /\ content' = o.content
    /\ ret' = [changed |-> o.changed, count |-> o.count]
    /\ wrote' = o.wrote
    /\ errline' = o.raised

NoReturn == [changed |-> FALSE, count |-> 0]

(***************************************************************************)
(* fix_file called on one file, once and again.                            *)
(***************************************************************************)
InitCall(fam, c, errs) ==
    /\ family = fam
    /\ pc = "fix"
    /\ content = c
    /\ original = c
    /\ errors = errs
    /\ pass = 0
    /\ ret = NoReturn
    /\ wrote = FALSE
    /\ exists = TRUE
    /\ fault = "none"
    /\ errline = FALSE
    /\ mode = "call"
    /\ nfiles = 0
    /\ total_fixed = 0
    /\ total_files = 0

InitScan == \/ \E c \in ContentsA : InitCall("A", c, <<>>)
            \/ \E c \in ContentsB : InitCall("B", c, <<>>)

InitDiag == \E c \in ContentsC, errs \in ErrorLists : InitCall("C", c, errs)

CallFrame == UNCHANGED <<family, pc, errors, exists, fault, mode, nfiles,
                         total_fixed, total_files>>

CallFixFileA ==
    /\ pc = "fix" /\ family = "A" /\ pass < MaxPasses
    /\ \E o \in FixFileA(content, fault) : Returned(o)
    /\ pass' = pass + 1
    /\ CallFrame

CallFixFileB ==
    /\ pc = "fix" /\ family = "B" /\ pass < MaxPasses
    /\ \E o \in FixFileB(content, fault) : Returned(o)
    /\ pass' = pass + 1
    /\ CallFrame

CallFixFileC ==
    /\ pc = "fix" /\ family = "C" /\ pass < MaxPasses
    /\ \E o \in FixFileC(content, errors, fault) : Returned(o)
    /\ pass' = pass + 1
    /\ CallFrame

NextScan == CallFixFileA \/ CallFixFileB

NextDiag == CallFixFileC

SpecScan == InitScan /\ [][NextScan]_vars

SpecDiag == InitDiag /\ [][NextDiag]_vars

(***************************************************************************)
(* main: a batch of up to MaxFiles files, taken one at a time.  What the   *)
(* next file holds and which fault it suffers is the environment's choice  *)
(* when main comes to it.                                                  *)
(***************************************************************************)
\* the family A files of a batch run name one table
BatchContentsA == SeqsUpTo({l \in LinesA : l.t # "b"}, MaxBatchLines)

BatchContentsB == SeqsUpTo(LinesB, MaxBatchLines)

BatchContentsC == FilesC(MaxBatchLinesC, MaxBatchTokens)

\* files.items(): every file of the grouping has at least one diagnostic
BatchErrorLists == {<<d>> : d \in Diagnostics}

Init ==
    /\ family \in {"A", "B", "C"}
    /\ mode \in (IF family = "A" THEN {"argv", "scan"}
                 ELSE IF family = "B" THEN {"scan"} ELSE {"diag"})
    /\ pc = "start"
    /\ content = <<>>
    /\ original = <<>>
    /\ errors = <<>>
    /\ pass = 0
    /\ ret = NoReturn
    /\ wrote = FALSE
    /\ exists = TRUE
    /\ fault = "none"
    /\ errline = FALSE
    /\ nfiles = 0
    /\ total_fixed = 0
    /\ total_files = 0

FileFrame == UNCHANGED <<content, original, errors, pass, ret, wrote, exists,
                         fault, errline>>

\* main up to its loop: lib/ must exist (A, B); read_errors must be able to
\* read the diagnostics (C, where its exception is caught by nobody)
Start ==
    /\ pc = "start"
    /\ \E ok \in BOOLEAN : pc' = IF ok THEN "loop" ELSE "abort"
    /\ FileFrame
    /\ UNCHANGED <<family, mode, nfiles, total_fixed, total_files>>

\* the next file of the batch: f.exists says whether it is there
TakeFile(f) ==
    /\ pc = "loop"
    /\ nfiles < MaxFiles
    /\ nfiles' = nfiles + 1
    /\ exists' = f.exists
    /\ fault' = f.fault
    /\ errors' = f.errors
    /\ UNCHANGED <<family, mode, pc>>

\* a missing file has no content and no fault of its own
FilesOf(contents, errlists, missing) ==
    {[exists |-> TRUE, fault |-> flt, content |-> c, errors |-> e] :
        flt \in Faults, c \in contents, e \in errlists}
    \cup (IF missing
          THEN {[exists |-> FALSE, fault |-> "none", content |-> <<>>, errors |-> e] :
                   e \in errlists}
          ELSE {})

\* what open() meets: a missing file raises like a failing read
Opening(f) == IF f.exists THEN f.fault ELSE "read"

\* one turn of the loop of main in fix-assertions.py
MainLoopA ==
    /\ family = "A"
    /\ \E f \in FilesOf(BatchContentsA, {<<>>}, mode = "argv") :
          /\ TakeFile(f)
          /\ IF ~f.exists
             THEN /\ original' = f.content
                  /\ content' = f.content
                  /\ ret' = NoReturn
                  /\ wrote' = FALSE
                  /\ errline' = FALSE
                  /\ pass' = 0
                  /\ UNCHANGED <<total_fixed, total_files>>
             ELSE \E o \in FixFileA(f.content, Opening(f)) :
                  /\ original' = f.content
                  /\ content' = o.content
                  /\ ret' = [changed |-> o.changed, count |-> o.count]
                  /\ wrote' = o.wrote
                  /\ errline' = o.raised
                  /\ pass' = 1
                  /\ total_fixed' = IF o.changed THEN total_fixed + o.count
                                    ELSE total_fixed
                  /\ total_files' = IF o.changed THEN total_files + 1
                                    ELSE total_files

\* one turn of the loop of main in fix-final-imports.py
MainLoopB ==
    /\ family = "B"
    /\ \E f \in FilesOf(BatchContentsB, {<<>>}, FALSE) :
          /\ TakeFile(f)
          /\ \E o \in FixFileB(f.content, Opening(f)) :
                  /\ original' = f.content
                  /\ content' = o.content
                  /\ ret' = [changed |-> o.changed, count |-> o.count]
                  /\ wrote' = o.wrote
                  /\ errline' = o.raised
                  /\ pass' = 1
                  /\ total_files' = IF o.changed THEN total_files + 1
                                    ELSE total_files
                  /\ UNCHANGED total_fixed

\* one turn of the loop of main in fix-ts18046.py
MainLoopC ==
    /\ family = "C"
    /\ \E f \in FilesOf(BatchContentsC, BatchErrorLists, TRUE) :
          /\ TakeFile(f)
          /\ \E o \in FixFileC(f.content, f.errors, Opening(f)) :
                  /\ original' = f.content
                  /\ content' = o.content
                  /\ ret' = [changed |-> o.changed, count |-> o.count]
                  /\ wrote' = o.wrote
                  /\ errline' = o.raised
                  /\ pass' = 1
                  /\ total_files' = IF o.changed THEN total_files + 1
                                    ELSE total_files
                  /\ UNCHANGED total_fixed

\* the batch is exhausted: the summary line is printed
Summary ==
    /\ pc = "loop"
    /\ pc' = "done"
    /\ FileFrame
    /\ UNCHANGED <<family, mode, nfiles, total_fixed, total_files>>

Next == Start \/ MainLoopA \/ MainLoopB \/ MainLoopC \/ Summary

Spec == Init /\ [][Next]_vars

(***************************************************************************)
(* The properties.                                                         *)
(***************************************************************************)

\* C1: idempotence. Running fix_file on the result of a first run changes
\* nothing: the content after the second call is the content before it.
Idempotent == pass >= 2 => content = original

\* C2: fix_file writes the file, and returns "changed", exactly when the
\* content after the rules differs from the content it read. (Stated for
\* diagnostics that name lines from 1 on; line 0 is the matter of C10.)
WriteIffChanged ==
    (pass >= 1 /\ \A k \in 1..Len(errors) : errors[k].line >= 1) =>
        /\ wrote <=> (content # original)
        /\ ret.changed <=> (content # original)

\* C3: table-identifier invariant of family A. An assertion block taken away
\* from the line before a .single() call names the table of the assertion the
\* .single() call carries; where the two differ, or .single() carries none,
\* the block stays.
TableIdentifierKept ==
    (family = "A" /\ pass >= 1) =>
        \A i \in 1..(Len(original) - 1) :
            (original[i].has /\ ~content[i].has /\ original[i + 1].m = "single")
                => (original[i + 1].has /\ original[i + 1].t = original[i].t)

\* the lines of c carrying an assertion block whose next line calls a method
\* that is neither single nor on the allow-list
OutsideAllowList(c) ==
    {i \in 1..(Len(c) - 1) : c[i].has /\ c[i + 1].m \notin ({"single"} \cup AllowTuple)}

\* C4: allow-list boundary of family A. An assertion block followed on the
\* next line by a method that is neither single nor on the allow-list is in
\* the text after fix_file exactly as it was before.
AllowListBoundary ==
    (family = "A" /\ pass >= 1) =>
        \A i \in OutsideAllowList(original) : content[i] = original[i]

\* C4 happens: fix_file changed a file and left in it the block that stands
\* before a call of .eq(
AllowListBoundaryWitness ==
    /\ family = "A" /\ pass = 1 /\ ret.changed
    /\ \E i \in OutsideAllowList(original) :
          original[i + 1].m = "eq" /\ content[i].has

\* C5: family C, branch 2. On a line with a map/filter/forEach call, a bare
\* callback parameter x named by the diagnostic becomes (x: any) =>, whether
\* it was written x => or (x) =>.
CallbackAnnotated ==
    (family = "C" /\ pass = 1 /\ Len(errors) = 1 /\ ~errline) =>
        LET n == errors[1].line
            v == errors[1].var
        IN  (/\ n \in 1..Len(original)
             /\ v \notin ErrorNames
             /\ original[n].hof
             /\ ~Has(original[n], AnnotKinds, v))
            => \A j \in 1..Len(original[n].toks) :
                  (/\ original[n].toks[j].v = v
                   /\ original[n].toks[j].k \in {"arrowP", "arrowB", "arrowParen"})
                  => content[n].toks[j].k = "annotOk"

\* the line first-match-wins over the three triggers yields: branch 1 where
\* the identifier is an error binding with an uncast property access, else
\* branch 2 where the line holds a map/filter/forEach call, else branch 3
\* where the identifier has a property access without a cast
FirstMatch(line, v) ==
    IF v \in ErrorNames /\ (Inner1a(line, v) \/ Inner1b(line, v))
    THEN Branch1(line, v)
    ELSE IF line.hof
    THEN (IF ~Has(line, AnnotKinds, v) THEN Branch2(line, v) ELSE line)
    ELSE IF Cond3(line, v) THEN Branch3(line, v)
    ELSE line

\* C6: family C classification is first-match-wins over the triggers 1, 2, 3:
\* the line a diagnostic names becomes what the first branch whose trigger
\* holds makes of it.
FirstMatchWins ==
    (family = "C" /\ pass = 1 /\ Len(errors) = 1 /\ ~errline) =>
        LET n == errors[1].line
        IN  n \in 1..Len(original) => content[n] = FirstMatch(original[n], errors[1].var)

\* C7: per-file failure isolation. When fix_file raises on a file the error
\* is reported, the stored file is what it was, the file does not count as
\* changed, and main goes on with the batch.
FailureIsolated ==
    (pc \in {"loop", "done", "abort"} /\ errline) =>
        /\ content = original
        /\ ~ret.changed
        /\ pc # "abort"

\* C8: the count fix_file of family A returns is the number of assertion
\* blocks it took out of the file.
CountIsRemoved ==
    (family = "A" /\ pass >= 1) => ret.count = Blocks(original) - Blocks(content)

\* C9: a missing target file is skipped silently in every invocation mode:
\* nothing goes to stderr for it and it does not count as changed.
MissingSkippedSilently ==
    (pc \in {"loop", "done"} /\ nfiles >= 1 /\ ~exists) =>
        /\ ~errline
        /\ ~ret.changed

\* C10: family C edits only the lines its diagnostics name: a line that
\* fix_file changed is line n of a diagnostic with 1-based line number n.
OnlyNamedLineEdited ==
    (family = "C" /\ pass >= 1) =>
        \A i \in 1..Len(content) :
            content[i] # original[i] => \E k \in 1..Len(errors) : errors[k].line = i

====
